---- MODULE Spec2Model ----
(***************************************************************************)
(* Link Guardian: the confidence gauge and the page controller.            *)
(*                                                                         *)
(* src/script.js holds two variants of the page script: the first          *)
(* (lines 1-489) and "v2.0" (lines 491-1206).  The variable `variant`      *)
(* (1 or 2) selects which one a behaviour runs; it never changes.          *)
(* src/gauge.js holds the modular gauge (two variants, lines 1-132 and     *)
(* 134-378); in the behaviours of its callers `variant` selects which.     *)
(* src/unnamed/part_000 holds an earlier checkLink, modelled on its own.   *)
(*                                                                         *)
(* The browser is modelled by two queues.  `rafs` is the list of pending   *)
(* requestAnimationFrame callbacks, run oldest first, one callback per     *)
(* step; a callback that reads its timestamp gets one strictly larger than *)
(* `ts`, the timestamp of the one before.                                  *)
(* `timers` is the list of pending setTimeout callbacks, each with its due *)
(* time on `clock`; the timer that fires is the one with the smallest due  *)
(* time, the oldest first among equals.  Every callback runs to            *)
(* completion in one step (JavaScript's run-to-completion).                *)
(*                                                                         *)
(* Numbers the code computes in floating point are kept as exact rationals *)
(* <<n, d>> in lowest terms with d > 0.                                    *)
(***************************************************************************)
EXTENDS Integers, Sequences, FiniteSets, TLC

\* ------------------------------------------------------------------ bounds
MaxCalls == 2          \* direct animateGauge calls per behaviour
MaxRuns == 2           \* accepted or refused checkLink submissions per behaviour
MaxGauges == 2         \* createGauge calls per behaviour

\* ------------------------------------------------------- exact arithmetic
Abs(x) == IF x < 0 THEN -x ELSE x

RECURSIVE Gcd(_, _)
Gcd(a, b) == IF b = 0 THEN a ELSE Gcd(b, a % b)

Rat(n, d) ==
    LET g == Gcd(Abs(n), Abs(d))
        s == IF d < 0 THEN -1 ELSE 1
    IN  <<(s * n) \div g, (s * d) \div g>>

RInt(n) == <<n, 1>>
RAdd(x, y) == Rat(x[1] * y[2] + y[1] * x[2], x[2] * y[2])
RSub(x, y) == Rat(x[1] * y[2] - y[1] * x[2], x[2] * y[2])
RMul(x, y) ==
    LET a == Rat(x[1], y[2])
        b == Rat(y[1], x[2])
    IN  Rat(a[1] * b[1], a[2] * b[2])
RDiv(x, y) == Rat(x[1] * y[2], x[2] * y[1])
RLess(x, y) == x[1] * y[2] < y[1] * x[2]
RMin(x, y) == IF RLess(y, x) THEN y ELSE x
RMax(x, y) == IF RLess(x, y) THEN y ELSE x

\* Math.round: the nearest integer, halves towards +infinity
MathRound(x) == (2 * x[1] + x[2]) \div (2 * x[2])

\* ------------------------------------------------- src/script.js constants
SUBMIT_LOCK_MS == 600
DELAY_MS == 900
GAUGE_ANIMATION_DURATION == 1100
STAGGER_MS == 80
wobbleAmount == 8
wobbleDuration == 150
FALLBACK_ARC == 283

NULL == 0

\* EASING.easeOutCubic: 1 - (1 - t)^3
easeOutCubic(t) ==
    LET u == RSub(RInt(1), t)
    IN  RSub(RInt(1), RMul(u, RMul(u, u)))

\* Number(confidence) || 0 : NaN and non-numeric strings give 0
NumberOrZero(c) == IF c.t = "num" THEN c.v ELSE 0

\* mutant: the confidence is not clamped
safeConfidence_noClamp(c) == NumberOrZero(c)

\* Math.max(0, Math.min(100, Number(confidence) || 0))
safeConfidence(c) ==
    LET n == NumberOrZero(c)
        lo == IF n < 100 THEN n ELSE 100
    IN  IF lo > 0 THEN lo ELSE 0

\* arc = (safeConfidence / 100) * maxArc
arcOf(sc, maxArc) == RMul(Rat(sc, 100), RInt(maxArc))

\* -90 + (safeConfidence / 100) * 180 ; the first variant clamps it to [-90, 90]
targetAngleOf(v, sc) ==
    LET raw == RAdd(RInt(-90), RMul(Rat(sc, 100), RInt(180)))
    IN  IF v = 1 THEN RMax(RInt(-90), RMin(RInt(90), raw)) ELSE raw

\* ---------------------------------------------------------------- state
VARIABLES
    variant,            \* 1: script.js lines 1-489, 2: script.js v2.0 (lines 491-1206)
    currentRaf,         \* currentRaf / STATE.currentRaf (NULL or a frame handle)
    gaugeMetrics,       \* STATE.gaugeMetrics (v2.0 cache of the arc length)
    rafs,               \* pending requestAnimationFrame callbacks, oldest first
    timers,             \* pending setTimeout callbacks, oldest first
    nextRaf,            \* the next handle requestAnimationFrame returns
    ts,                 \* timestamp of the last delivered animation frame
    clock,              \* time of the timer queue (ms)
    dials,              \* every card content ever built (attached or detached)
    roots,              \* root element -> the content (index of dials) inside it, 0: empty
    submitLocked,       \* submitLocked / STATE.submitLocked
    currentController,  \* currentController / STATE.currentController (NULL or a run)
    aborted,            \* the runs whose AbortController signal is aborted
    listeners,          \* the runs whose signal has the 'abort' listener of checkLink
    gauges,             \* gauge.js: the roots holding a gauge createGauge built
    card,               \* #result: its classes, aria-busy, dataset.summary, --gauge-color
    buttons,            \* the copy/share buttons are displayed
    calls,              \* history: the animateGauge calls made so far
    runs,               \* history: the checkLink invocations made so far
    lastRun,            \* history: the handler or callback that ran in the last step
    cancelled           \* history: dials whose pending frame was cancelled, unwritten since

gaugeVars == <<variant, currentRaf, gaugeMetrics, rafs, timers, nextRaf, ts, clock, dials,
               roots, submitLocked, currentController, aborted, listeners, card,
               buttons, gauges, calls, runs, lastRun, cancelled>>

\* the elements animateGauge looks up in its root (script.js 358-364, 951-958)
Required(v) ==
    {"fill", "needle", "label", "pathEl", "endCircle"} \cup (IF v = 2 THEN {"gauge"} ELSE {})

NoPoint == <<-1, 1>>

\* The gauge renderResultCard (script.js 212-354) / renderResult + createGaugeSVG
\* (746-884) build: the label already reads the final confidence, the arc is
\* '0 283' and the needle is at rotate(-90,100,100).
RenderedDial(conf, pathLen, parts) ==
    [ pathLen    |-> pathLen,          \* what pathEl.getTotalLength() returns
      parts      |-> parts,            \* the gauge elements present under the root
      stroke     |-> "",               \* .gauge-fill stroke
      endFill    |-> "transparent",    \* .arc-end fill
      dash       |-> <<RInt(0), RInt(FALLBACK_ARC)>>,  \* .gauge-fill stroke-dasharray
      endAt      |-> NoPoint,          \* arc length whose point .arc-end sits at
      needle     |-> RInt(-90),        \* .needle rotate(angle,100,100)
      transition |-> "",               \* .needle style.transition
      label      |-> conf,             \* n of 'Confidence: n%'
      gaugeCls   |-> {},               \* classes added to .gauge
      labelCls   |-> {},               \* classes added to .confidence-label
      shown      |-> {} ]              \* fade-step elements carrying 'show'

\* the bundle of state the page code reads and writes
G == [ currentRaf |-> currentRaf, gaugeMetrics |-> gaugeMetrics, rafs |-> rafs,
       timers |-> timers, nextRaf |-> nextRaf, clock |-> clock, dials |-> dials,
       roots |-> roots, submitLocked |-> submitLocked,
       currentController |-> currentController, aborted |-> aborted,
       listeners |-> listeners, card |-> card,
       buttons |-> buttons, gauges |-> gauges, cancelled |-> cancelled ]

PutG(st) ==
    /\ currentRaf' = st.currentRaf
    /\ gaugeMetrics' = st.gaugeMetrics
    /\ rafs' = st.rafs
    /\ timers' = st.timers
    /\ nextRaf' = st.nextRaf
    /\ clock' = st.clock
    /\ dials' = st.dials
    /\ roots' = st.roots
    /\ submitLocked' = st.submitLocked
    /\ currentController' = st.currentController
    /\ aborted' = st.aborted
    /\ listeners' = st.listeners
    /\ card' = st.card
    /\ buttons' = st.buttons
    /\ gauges' = st.gauges
    /\ cancelled' = st.cancelled

\* the result card as a viewer of the page has it: the card element and what is
\* inside it (0: nothing)
CardView(st) ==
    [ card |-> st.card,
      content |-> IF st.roots[1] = 0 THEN 0 ELSE st.dials[st.roots[1]] ]

\* history record of a step: the handler or callback that ran, the animateGauge
\* call or checkLink run it belongs to, the dial it holds, whether the result
\* card or anything inside it is different after it, whether it left every
\* element, frame and timer as it was, and whether it left the frames and timers
Ran(op, call, dial, st) ==
    [op |-> op, call |-> call, dial |-> dial, wrote |-> CardView(st) # CardView(G),
     same |-> st = G, quiet |-> st.rafs = G.rafs /\ st.timers = G.timers]

NoRaf == [ id |-> 0, kind |-> "none", root |-> 0, dial |-> 0, call |-> 0, start |-> 0,
           sc |-> 0, maxArc |-> 0, dur |-> 0, wobble |-> FALSE ]

NoTimer == [ due |-> 0, kind |-> "none", dial |-> 0, call |-> 0, base |-> RInt(0),
             wobbles |-> 0, count |-> 0, dir |-> 0, url |-> "", idx |-> 0 ]

\* a write to elements of dial d (a write of the arc, the needle angle or the label
\* ends the "cancelled, unwritten since" history of d)
WriteDial(st, d, rec) ==
    LET old == st.dials[d]
        redrawn == <<rec.dash, rec.needle, rec.label>> # <<old.dash, old.needle, old.label>>
    IN  [st EXCEPT !.dials = [st.dials EXCEPT ![d] = rec],
                   !.cancelled = IF redrawn THEN st.cancelled \ {d} ELSE st.cancelled]

\* cancelAnimationFrame(id)
cancelAnimationFrame(st, id) ==
    LET hit == {i \in DOMAIN st.rafs : st.rafs[i].id = id}
        gone == {st.rafs[i].dial : i \in {j \in hit : st.rafs[j].kind = "gauge"}}
    IN  [st EXCEPT !.rafs = SelectSeq(st.rafs, LAMBDA r : r.id # id),
                   !.cancelled = st.cancelled \cup gone]

\* requestAnimationFrame(cb): the callback joins the queue, the handle is returned
requestAnimationFrame(st, r) ==
    [st EXCEPT !.rafs = Append(st.rafs, [r EXCEPT !.id = st.nextRaf]),
               !.nextRaf = st.nextRaf + 1]

\* setTimeout(cb, delay)
setTimeout(st, t, delay) ==
    [st EXCEPT !.timers = Append(st.timers, [t EXCEPT !.due = st.clock + delay])]

\* ------------------------------------------ animateNeedleWobble (433-453, 1033-1053)
wobbleTransition == "transform 150ms ease-out"

\* mutant: the last wobble step leaves the needle displaced
wobble_noRestore(st, w) ==
    LET d == st.dials[w.dial]
        moved == [d EXCEPT !.transition = wobbleTransition,
                           !.needle = RAdd(w.base, RInt(w.dir * wobbleAmount))]
    IN  IF w.count + 1 < w.wobbles * 2
        THEN setTimeout(WriteDial(st, w.dial, moved),
                        [w EXCEPT !.count = w.count + 1, !.dir = -w.dir], wobbleDuration)
        ELSE WriteDial(st, w.dial, moved)

\* mutant: the wobble takes one step more than wobbles * 2
wobble_extraStep(st, w) ==
    LET d == st.dials[w.dial]
        targetWobbleAngle == RAdd(w.base, RInt(w.dir * wobbleAmount))
        moved == [d EXCEPT !.transition = wobbleTransition, !.needle = targetWobbleAngle]
        wobbleCount == w.count + 1
    IN  IF wobbleCount <= w.wobbles * 2
        THEN setTimeout(WriteDial(st, w.dial, moved),
                        [w EXCEPT !.count = wobbleCount, !.dir = -w.dir], wobbleDuration)
        ELSE WriteDial(st, w.dial, [moved EXCEPT !.transition = "none", !.needle = w.base])

\* one call of the inner wobble(direction); w carries the closure (dial, call,
\* base, wobbles, wobbleCount so far, direction)
wobble(st, w) ==
    LET d == st.dials[w.dial]
        targetWobbleAngle == RAdd(w.base, RInt(w.dir * wobbleAmount))
        moved == [d EXCEPT !.transition = wobbleTransition, !.needle = targetWobbleAngle]
        wobbleCount == w.count + 1
    IN  IF wobbleCount < w.wobbles * 2
        THEN setTimeout(WriteDial(st, w.dial, moved),
                        [w EXCEPT !.count = wobbleCount, !.dir = -w.dir], wobbleDuration)
        ELSE WriteDial(st, w.dial, [moved EXCEPT !.transition = "none", !.needle = w.base])

animateNeedleWobble(st, dial, call, baseAngle, wobbles) ==
    wobble(st, [NoTimer EXCEPT !.kind = "wobble", !.dial = dial, !.call = call,
                               !.base = baseAngle, !.wobbles = wobbles,
                               !.count = 0, !.dir = 1])

\* wobbles passed by the completion branch: 3 (script.js 425), 2 (script.js 1025)
WobblesOf(v) == IF v = 1 THEN 3 ELSE 2

\* ------------------------------------------------ animateGauge.frame (395-428, 996-1028)
\* needle angle of a frame: first variant 409-410, v2.0 1009
frameAngle(v, targetAngle, eased) ==
    IF v = 1
    THEN LET angle == RAdd(RInt(-90), RMul(RSub(targetAngle, RInt(-90)), eased))
         IN  RMax(RInt(-90), RMin(targetAngle, angle))
    ELSE RAdd(RInt(-90), RMul(RSub(RInt(-90), targetAngle), RSub(RInt(1), eased)))

\* mutant: the last frame does not snap the needle and the label to the target
frameComplete_noSnap(st, v, r, d) ==
    LET st1 == WriteDial(st, r.dial, d)
    IN  IF r.wobble
        THEN animateNeedleWobble(st1, r.dial, r.call, d.needle, WobblesOf(v))
        ELSE st1

\* the branch taken at progress = 1 (416-427, 1015-1027)
frameComplete(st, v, r, d) ==
    LET targetAngle == targetAngleOf(v, r.sc)
        snapped == [d EXCEPT !.needle = targetAngle, !.label = r.sc,
                             !.gaugeCls = IF v = 2 THEN (@ \ {"active"}) \cup {"complete"} ELSE @,
                             !.labelCls = IF v = 2 THEN @ \cup {"complete"} ELSE @]
        st1 == WriteDial(st, r.dial, snapped)
    IN  IF r.wobble
        THEN animateNeedleWobble(st1, r.dial, r.call, targetAngle, WobblesOf(v))
        ELSE st1

\* frame(now) of the closure r, already taken off the queue
frame(st, v, r, now) ==
    LET start == IF r.start = 0 THEN now ELSE r.start       \* if (!start) start = now
        elapsed == now - start
        progress == RMin(Rat(elapsed, r.dur), RInt(1))
        eased == easeOutCubic(progress)
        arc == arcOf(r.sc, r.maxArc)
        targetAngle == targetAngleOf(v, r.sc)
        currentArc == RMul(arc, eased)
        d == st.dials[r.dial]
        drawn == [d EXCEPT !.dash = <<currentArc, RSub(RInt(r.maxArc), currentArc)>>,
                           !.endAt = currentArc,
                           !.needle = frameAngle(v, targetAngle, eased),
                           !.label = MathRound(RMul(RInt(r.sc), eased))]
    IN  IF RLess(progress, RInt(1))
        THEN LET st1 == requestAnimationFrame(WriteDial(st, r.dial, drawn),
                                              [r EXCEPT !.start = start])
             IN  [st1 EXCEPT !.currentRaf = st.nextRaf]
        ELSE frameComplete(st, v, r, drawn)

\* ------------------------------------------------------ animateGauge (356-431, 949-1031)
\* maxArc: measured on every call (366-367) or read from the v2.0 cache (960-969)
maxArcOf(st, v, d) ==
    IF v = 1 THEN d.pathLen
    ELSE IF st.gaugeMetrics = NULL THEN d.pathLen ELSE st.gaugeMetrics

\* mutant: the reduceMotion branch forgets the needle
snapToTarget_noNeedle(v, d, sc, maxArc) ==
    LET arc == arcOf(sc, maxArc)
    IN  [d EXCEPT !.dash = <<arc, RSub(RInt(maxArc), arc)>>, !.endAt = arc, !.label = sc]

\* the reduceMotion branch (377-385, 977-986)
snapToTarget(v, d, sc, maxArc) ==
    LET arc == arcOf(sc, maxArc)
    IN  [d EXCEPT !.dash = <<arc, RSub(RInt(maxArc), arc)>>,
                  !.endAt = arc,
                  !.needle = targetAngleOf(v, sc),
                  !.label = sc,
                  !.gaugeCls = IF v = 2 THEN @ \cup {"complete"} ELSE @]

\* mutant: the outstanding frame is not cancelled
cancelPrevious_skip(st, v) == st

\* "Cancel previous animation" (387-390: cancels and nulls; 989-991: cancels only)
cancelPrevious(st, v) ==
    IF st.currentRaf # NULL
    THEN LET st1 == cancelAnimationFrame(st, st.currentRaf)
         IN  IF v = 1 THEN [st1 EXCEPT !.currentRaf = NULL] ELSE st1
    ELSE st

\* what the animated branch does to the dial before the first frame (392, 993)
prepareDial(v, d) ==
    IF v = 1 THEN [d EXCEPT !.transition = "none"]
    ELSE [d EXCEPT !.gaugeCls = @ \cup {"active"}]

animateGauge(st, v, root, dial, call, confidence, color, reduceMotion, duration, enableWobble) ==
    IF dial = 0 \/ ~(Required(v) \subseteq st.dials[dial].parts)
    THEN st                                                   \* 364, 958: return
    ELSE
      LET d0 == st.dials[dial]
          maxArc == maxArcOf(st, v, d0)
          st0 == IF v = 2 /\ st.gaugeMetrics = NULL
                 THEN [st EXCEPT !.gaugeMetrics = d0.pathLen] ELSE st
          sc == safeConfidence(confidence)
          d1 == [d0 EXCEPT !.stroke = color, !.endFill = color]
      IN  IF reduceMotion
          THEN WriteDial(st0, dial, snapToTarget(v, d1, sc, maxArc))
          ELSE LET st1 == cancelPrevious(st0, v)
                   st2 == WriteDial(st1, dial, prepareDial(v, d1))
                   st3 == requestAnimationFrame(st2,
                             [NoRaf EXCEPT !.kind = "gauge", !.root = root, !.dial = dial,
                                           !.call = call, !.start = 0, !.sc = sc,
                                           !.maxArc = maxArc, !.dur = duration,
                                           !.wobble = enableWobble])
               IN  [st3 EXCEPT !.currentRaf = st2.nextRaf]

\* --------------------------------------------------------- the browser's queues
\* index of the timer that fires next: smallest due time, oldest first
NextTimer ==
    CHOOSE i \in DOMAIN timers :
        \A j \in DOMAIN timers :
            timers[i].due < timers[j].due \/ (timers[i].due = timers[j].due /\ i <= j)

RemoveAt(q, i) == SubSeq(q, 1, i - 1) \o SubSeq(q, i + 1, Len(q))

\* --------------------------------------------------- the page: checkLink and renderers
\* VERDICT_COLOR / VERDICT_CONFIG[..].color (script.js 20, 524-552)
VerdictColor(cls) ==
    IF cls = "safe" THEN "#28a745" ELSE IF cls = "fake" THEN "#dc3545" ELSE "#ffc107"

\* SUSPICIOUS_TLDS.some(t => host.endsWith(t)) (script.js 19, 522): the first entry
\* is '. xyz', with a space, which ends no host name
hasSuspiciousTld(url) == url.tld \in {".top", ".gq", ".tk", ".cf"}

\* the protocol test: script.js 130 compares with 'http:' and 'https:', v2.0
\* (line 736) with 'http: ' and 'https:'
unusualProtocol(v, url) ==
    IF v = 1 THEN url.protocol \notin {"http:", "https:"} ELSE url.protocol # "https:"

\* the scores taken off the confidence (script.js 126-130, detectUrlIssues 712-741)
issueScores(v, url) ==
    (IF url.punycode THEN <<35>> ELSE <<>>) \o (IF url.shortener THEN <<30>> ELSE <<>>)
    \o (IF hasSuspiciousTld(url) THEN <<25>> ELSE <<>>)
    \o (IF url.login THEN <<20>> ELSE <<>>)
    \o (IF unusualProtocol(v, url) THEN <<40>> ELSE <<>>)

RECURSIVE SumSeq(_)
SumSeq(q) == IF q = <<>> THEN 0 ELSE Head(q) + SumSeq(Tail(q))

\* mutant: the verdict decided by the confidence threshold alone
analyzeUrl_thresholdOnly(v, url) ==
    LET flags == issueScores(v, url)
        raw == 85 - SumSeq(flags)
        confidence == IF raw < 0 THEN 0 ELSE IF raw > 100 THEN 100 ELSE raw
        cls == IF confidence < 60 THEN "fake" ELSE "safe"
    IN  [verdictClass |-> cls, confidence |-> confidence, color |-> VerdictColor(cls)]

\* the verdict of a URL that parsed (script.js 114-143, analyzeUrl 674-710)
analyzeUrl(v, url) ==
    LET flags == issueScores(v, url)
        raw == 85 - SumSeq(flags)
        confidence == IF raw < 0 THEN 0 ELSE IF raw > 100 THEN 100 ELSE raw
        cls == IF Len(flags) > 0 \/ confidence < 60 THEN "fake" ELSE "safe"
    IN  [verdictClass |-> cls, confidence |-> confidence, color |-> VerdictColor(cls)]

\* the verdict rendered when new URL(url) throws (script.js 103-109, 651-658)
invalidVerdict == [verdictClass |-> "unknown", confidence |-> 0, color |-> VerdictColor("unknown")]

\* number of .fade-step elements of a card content: header, reason, label and,
\* unless the result is the simple one, the gauge
FadeSteps(d) == IF "gauge" \in d.parts THEN 4 ELSE 3

\* root.innerHTML = '' ... root.appendChild(..): new content replaces the old one
\* in #result, the old elements stay alive for the callbacks that hold them
newContent(st, confidence, parts) ==
    [st EXCEPT !.dials = Append(st.dials, RenderedDial(confidence, FALLBACK_ARC, parts)),
               !.roots = [st.roots EXCEPT ![1] = Len(st.dials) + 1]]

\* renderSimpleResult (script.js 177-209)
renderSimpleResult(st, run, verdict) ==
    LET s1 == newContent(st, verdict.confidence, {"label"})
        s2 == [s1 EXCEPT !.card.cls = {"result-card", verdict.verdictClass}]
        s3 == requestAnimationFrame(s2, [NoRaf EXCEPT !.kind = "fadeSimple", !.root = 1,
                                                      !.call = run])
    IN  [s3 EXCEPT !.card.summary = run]

\* renderResultCard (script.js 212-354)
renderResultCard(st, run, verdict) ==
    LET s1 == newContent(st, verdict.confidence, Required(2))
        s2 == [s1 EXCEPT !.card.cls = {"result-card", verdict.verdictClass}]
    IN  requestAnimationFrame(s2, [NoRaf EXCEPT !.kind = "fade", !.root = 1, !.call = run])

\* renderResult (v2.0, script.js 746-805)
renderResult(st, run, verdict, isSimple) ==
    LET s1 == newContent(st, verdict.confidence, IF isSimple THEN {"label"} ELSE Required(2))
        s2 == [s1 EXCEPT !.card.cls = {"result-card", verdict.verdictClass},
                         !.card.verdict = verdict.verdictClass,
                         !.card.confidence = verdict.confidence,
                         !.card.gaugeColor = verdict.color]
    IN  requestAnimationFrame(s2, [NoRaf EXCEPT !.kind = "fade", !.root = 1, !.call = run])

\* delay of the stagger timer of the i-th .fade-step element: index * 80 (script.js
\* 203-206, 347-351), data-delay * 80 in v2.0 (lines 799-802)
staggerDelay(v, i) == IF v = 1 THEN (i - 1) * STAGGER_MS ELSE i * STAGGER_MS

\* the fade-in frame callback of a renderer: r.root is the card, the elements are
\* those inside it when the callback runs.  In renderSimpleResult the selector is
\* '. fade-step' (script.js 200), which querySelectorAll rejects with a SyntaxError.
fadeIn(st, v, r) ==
    LET s1 == [st EXCEPT !.card.cls = @ \cup {"show"}]
        d == s1.roots[r.root]
        n == IF d = 0 THEN 0 ELSE FadeSteps(s1.dials[d])
    IN  IF r.kind = "fadeSimple" THEN s1
        ELSE [s1 EXCEPT !.timers = @ \o
                [i \in 1..n |-> [NoTimer EXCEPT !.kind = "stagger", !.dial = d, !.call = r.call,
                                                !.idx = i,
                                                !.due = s1.clock + staggerDelay(v, i)]]]

\* el.classList.add('show') of one stagger timer
stagger(st, t) ==
    WriteDial(st, t.dial, [st.dials[t.dial] EXCEPT !.shown = @ \cup {t.idx}])

\* animateGaugeForVerdict (v2.0, script.js 939-947)
animateGaugeForVerdict(st, run, verdict, reduceMotion) ==
    animateGauge(st, 2, 1, st.roots[1], run, [t |-> "num", v |-> verdict.confidence],
                 verdict.color, reduceMotion, GAUGE_ANIMATION_DURATION, ~reduceMotion)

\* showActionButtons (v2.0, script.js 1078-1088)
showActionButtons(st) == [st EXCEPT !.buttons = TRUE, !.card.busy = FALSE]

\* storeResultSummary (v2.0, script.js 1055-1061)
storeResultSummary(st, run) == [st EXCEPT !.card.summary = run]

\* the 'abort' listener without its classList.remove('loading')
onAbort_keepLoading(st, run) ==
    [st EXCEPT !.timers = SelectSeq(st.timers,
                                    LAMBDA t : ~(t.kind = "result" /\ t.call = run))]

\* the 'abort' listener checkLink registers (script.js 169-173, 668-671)
onAbort(st, run) ==
    [st EXCEPT !.timers = SelectSeq(st.timers,
                                    LAMBDA t : ~(t.kind = "result" /\ t.call = run)),
               !.card.cls = @ \ {"loading"}]

\* cancel the previous run (script.js 63-71; abortCurrentOperation 1090-1101)
abortCurrentOperation(st) ==
    LET cc == st.currentController
        s1 == IF cc = NULL THEN st
              ELSE LET a == [st EXCEPT !.aborted = @ \cup {cc}, !.currentController = NULL]
                   IN  IF cc \in st.listeners THEN onAbort(a, cc) ELSE a
    IN  IF s1.currentRaf # NULL
        THEN [cancelAnimationFrame(s1, s1.currentRaf) EXCEPT !.currentRaf = NULL]
        ELSE s1

\* the 900 ms callback of run `run` (script.js 95-165, 642-664); reduceMotion is what
\* matchMedia('(prefers-reduced-motion: reduce)') answers when it runs.  In the
\* first variant the callback ends at line 149: '. verdict-header' is not a valid
\* selector, querySelector throws and nothing after it runs.
resultTimer(st, v, t, reduceMotion) ==
    IF t.call \in st.aborted THEN st
    ELSE IF v = 1
    THEN LET s1 == [st EXCEPT !.card.cls = @ \ {"loading"}]
         IN  IF ~t.url.parses THEN renderSimpleResult(s1, t.call, invalidVerdict)
             ELSE renderResultCard(s1, t.call, analyzeUrl(1, t.url))
    ELSE IF t.url.parses
    THEN LET verdict == analyzeUrl(2, t.url)
             s1 == renderResult(st, t.call, verdict, FALSE)
             s2 == animateGaugeForVerdict(s1, t.call, verdict, reduceMotion)
         IN  storeResultSummary(showActionButtons(s2), t.call)
    ELSE renderResult(st, t.call, invalidVerdict, TRUE)

\* checkLink without the submit-lock test of its first line
checkLink_noLock(st, v, run, url) ==
    LET s1 == setTimeout([st EXCEPT !.submitLocked = TRUE],
                         [NoTimer EXCEPT !.kind = "lock", !.call = run], SUBMIT_LOCK_MS)
        s2 == [abortCurrentOperation(s1) EXCEPT !.currentController = run]
        s3 == [s2 EXCEPT !.roots = [s2.roots EXCEPT ![1] = 0],
                         !.card.cls = {"result-card", "loading"},
                         !.card.busy = IF v = 2 THEN TRUE ELSE @,
                         !.buttons = FALSE]
        s4 == setTimeout(s3, [NoTimer EXCEPT !.kind = "result", !.call = run, !.url = url],
                         DELAY_MS)
    IN  IF ~st.card.present \/ (v = 2 /\ url.text = "") THEN s2
        ELSE [s4 EXCEPT !.listeners = @ \cup {run}]

\* checkLink arming the lock timer only once the check starts, after the early
\* return for a missing #result or an empty URL
checkLink_lateLockTimer(st, v, run, url) ==
    IF st.submitLocked THEN st
    ELSE
      LET s1 == [st EXCEPT !.submitLocked = TRUE]
          s2 == [abortCurrentOperation(s1) EXCEPT !.currentController = run]
          s3 == [s2 EXCEPT !.roots = [s2.roots EXCEPT ![1] = 0],
                           !.card.cls = {"result-card", "loading"},
                           !.card.busy = IF v = 2 THEN TRUE ELSE @,
                           !.buttons = FALSE]
          s4 == setTimeout(s3, [NoTimer EXCEPT !.kind = "result", !.call = run, !.url = url],
                           DELAY_MS)
          s5 == setTimeout(s4, [NoTimer EXCEPT !.kind = "lock", !.call = run], SUBMIT_LOCK_MS)
      IN  IF ~st.card.present \/ (v = 2 /\ url.text = "") THEN s2
          ELSE [s5 EXCEPT !.listeners = @ \cup {run}]

\* checkLink without hiding the copy/share buttons when it resets the card
checkLink_keepButtons(st, v, run, url) ==
    IF st.submitLocked THEN st
    ELSE
      LET s1 == setTimeout([st EXCEPT !.submitLocked = TRUE],
                           [NoTimer EXCEPT !.kind = "lock", !.call = run], SUBMIT_LOCK_MS)
          s2 == [abortCurrentOperation(s1) EXCEPT !.currentController = run]
          s3 == [s2 EXCEPT !.roots = [s2.roots EXCEPT ![1] = 0],
                           !.card.cls = {"result-card", "loading"},
                           !.card.busy = IF v = 2 THEN TRUE ELSE @]
          s4 == setTimeout(s3, [NoTimer EXCEPT !.kind = "result", !.call = run, !.url = url],
                           DELAY_MS)
      IN  IF ~st.card.present \/ (v = 2 /\ url.text = "") THEN s2
          ELSE [s4 EXCEPT !.listeners = @ \cup {run}]

\* checkLink (script.js 58-174, 617-672), the run-th invocation, with the trimmed
\* value of #urlInput
checkLink(st, v, run, url) ==
    IF st.submitLocked THEN st
    ELSE
      LET s1 == setTimeout([st EXCEPT !.submitLocked = TRUE],
                           [NoTimer EXCEPT !.kind = "lock", !.call = run], SUBMIT_LOCK_MS)
          s2 == [abortCurrentOperation(s1) EXCEPT !.currentController = run]
          s3 == [s2 EXCEPT !.roots = [s2.roots EXCEPT ![1] = 0],
                           !.card.cls = {"result-card", "loading"},
                           !.card.busy = IF v = 2 THEN TRUE ELSE @,
                           !.buttons = FALSE]
          s4 == setTimeout(s3, [NoTimer EXCEPT !.kind = "result", !.call = run, !.url = url],
                           DELAY_MS)
      IN  IF ~st.card.present \/ (v = 2 /\ url.text = "") THEN s2
          ELSE [s4 EXCEPT !.listeners = @ \cup {run}]

\* ------------------------------------------------------------------ src/gauge.js
\* JavaScript numbers of gauge.js are rationals; NaN is the pair with denominator 0
NaN == <<0, 0>>
IsNaN(x) == x[2] = 0

\* ToNumber of the confidence argument, as the arithmetic of gauge.js coerces it
ToNumber(c) == IF c.t = "num" THEN RInt(c.v) ELSE NaN

\* Math.max(0, Math.min(100, percentage)) (gauge.js 98, 300): NaN stays NaN
gjClamp(x) == IF IsNaN(x) THEN NaN ELSE RMax(RInt(0), RMin(RInt(100), x))

\* the stroke-dashoffset, in units of ARC_LENGTH: 1 - clamped / 100 (gauge.js 103)
gjOffset(clamped) ==
    IF IsNaN(clamped) THEN NaN ELSE RSub(RInt(1), RDiv(clamped, RInt(100)))

\* angleDeg = -180 + (clamped / 100) * 180 (gauge.js 115)
gjAngle(clamped) ==
    IF IsNaN(clamped) THEN NaN ELSE RAdd(RInt(-180), RMul(clamped, Rat(180, 100)))

gjRound(x) == IF IsNaN(x) THEN NaN ELSE RInt(MathRound(x))

\* easeOutQuart of animateLabel (gauge.js 123)
easeOutQuart(t) ==
    LET u == RSub(RInt(1), t)
        u2 == RMul(u, u)
    IN  RSub(RInt(1), RMul(u2, u2))

NoTransition == [property |-> "none", ms |-> 0]

\* the elements animateGauge of gauge.js needs under its root
gjRequired == {"gauge", "gauge-value", "gauge-needle"}

\* mutant: the percentage is used as it comes
setGaugePercentage_noClamp(g, percentage, duration, reduceMotion, immediate) ==
    [g EXCEPT !.valueTransition = NoTransition, !.needleTransition = NoTransition,
              !.dashoffset = gjOffset(percentage), !.needleAngle = gjAngle(percentage)]

\* setGaugePercentage (gauge.js 97-117, 299-321) on the gauge g
setGaugePercentage(g, percentage, duration, reduceMotion, immediate) ==
    IF ~({"gauge-value", "gauge-needle"} \subseteq g.parts) THEN g
    ELSE
      LET clamped == gjClamp(percentage)
          still == immediate \/ reduceMotion
      IN  [g EXCEPT !.valueTransition =
                       IF still THEN NoTransition
                       ELSE [property |-> "stroke-dashoffset", ms |-> duration],
                    !.needleTransition =
                       IF still THEN NoTransition
                       ELSE [property |-> "transform", ms |-> duration],
                    !.dashoffset = gjOffset(clamped),
                    !.needleAngle = gjAngle(clamped)]

\* a root holding a label and the gauge createGauge (gauge.js 10-58, 147-246) built
\* for `percentage`, less the elements in `missing`
CreatedGauge(percentage, missing) ==
    setGaugePercentage(
        [ parts |-> ({"gauge", "gauge-value", "gauge-needle", "confidence-label"} \ missing),
          gaugeColor |-> "",                 \* --gauge-color on the root
          svgCls |-> {"gauge"},              \* classes of the svg
          ariaNow |-> percentage,            \* aria-valuenow (second variant)
          filter |-> FALSE,                  \* the value arc carries the glow filter
          valueTransition |-> NoTransition,
          needleTransition |-> NoTransition,
          dashoffset |-> RInt(1),
          needleAngle |-> RInt(0),
          label |-> ToNumber(percentage),    \* n of 'Confidence: n%'
          labelCls |-> {} ],
        ToNumber(percentage), 800, FALSE, TRUE)

\* createGauge(container, percentage) (gauge.js 10-58, 147-246): a new root
createGauge(st, percentage) ==
    [st EXCEPT !.gauges = Append(@, CreatedGauge(percentage, {}))]

\* animateLabel (gauge.js 119-132, 323-336): performance.now() is `now`
animateLabel(st, g, call, target, duration, now) ==
    requestAnimationFrame(st, [NoRaf EXCEPT !.kind = "label", !.dial = g, !.call = call,
                                            !.start = now, !.sc = gjRound(target),
                                            !.dur = duration])

\* one call of step(now) of animateLabel's loop r
labelStep(st, r, now) ==
    LET t == RMin(RInt(1), Rat(now - r.start, r.dur))
        val == IF IsNaN(r.sc) THEN NaN ELSE gjRound(RMul(r.sc, easeOutQuart(t)))
        s1 == [st EXCEPT !.gauges[r.dial].label = val]
    IN  IF RLess(t, RInt(1)) THEN requestAnimationFrame(s1, r) ELSE s1

\* the completion callback of animateGauge (gauge.js 88-92, 285-294)
gjComplete(st, v, t) ==
    LET g == st.gauges[t.dial]
    IN  [st EXCEPT !.gauges[t.dial] =
            [g EXCEPT !.svgCls = (@ \ {"animating"}) \cup {"complete"},
                      !.filter = IF v = 2 THEN FALSE ELSE @,
                      !.labelCls = IF "confidence-label" \in g.parts
                                   THEN @ \cup {"complete"} ELSE @]]

\* options without a duration
NoDuration == -1

\* animateGauge of gauge.js (60-93, 248-295); v is the variant of gauge.js, a color
\* of "" is a falsy one
gjAnimateGauge(st, v, g, call, confidence, color, reduceMotion, duration, now) ==
    LET dur == IF duration = NoDuration THEN 1100 ELSE IF duration < 200 THEN 200 ELSE duration
        s1 == IF color # "" THEN [st EXCEPT !.gauges[g].gaugeColor = color] ELSE st
        g1 == s1.gauges[g]
        g2 == [g1 EXCEPT !.ariaNow = IF v = 2 THEN confidence ELSE @,
                         !.svgCls = @ \cup {"animating"},
                         !.filter = IF v = 2 /\ ~reduceMotion THEN TRUE ELSE @]
        g3 == setGaugePercentage(g2, ToNumber(confidence), dur, reduceMotion, FALSE)
        s2 == [s1 EXCEPT !.gauges[g] = g3]
        s3 == IF "confidence-label" \in g1.parts /\ ~reduceMotion
              THEN animateLabel(s2, g, call, ToNumber(confidence), dur, now)
              ELSE s2
    IN  IF ~(gjRequired \subseteq g1.parts) THEN s1
        ELSE setTimeout(s3, [NoTimer EXCEPT !.kind = "complete", !.dial = g, !.call = call],
                        dur + 50)

\* ------------------------------------------------ inputs of the direct calls
\* confidence arguments: numbers, NaN, a non-numeric string
ConfInputs ==
    { [t |-> "num", v |-> -20], [t |-> "num", v |-> 30], [t |-> "num", v |-> 100],
      [t |-> "num", v |-> 150], [t |-> "nan", v |-> 0], [t |-> "str", v |-> 0] }

\* confidence arguments of the call sequences: in range, and out of range
ApiConfs == { [t |-> "num", v |-> 30], [t |-> "num", v |-> 150] }

\* options.duration of the direct calls (checkLink passes 1100, script.js 157)
Durations == {GAUGE_ANIMATION_DURATION}

\* time between two delivered frames
FrameSteps == {550, 1100}

\* VERDICT_COLOR.fake
FakeColor == "#dc3545"

\* confidence the card was rendered with (script.js 124)
RenderedConfidence == 85

\* what the second root lacks (nothing, or one of the elements animateGauge needs)
MissingChoices == {"none", "needle", "gauge"}

Roots == {1, 2}

\* #result before the first checkLink, with nothing the scripts write
EmptyCard ==
    [present |-> TRUE, cls |-> {}, busy |-> FALSE, summary |-> 0, verdict |-> "",
     confidence |-> 0, gaugeColor |-> ""]

\* a page without #result: document.getElementById('result') is null
NoCard == [EmptyCard EXCEPT !.present = FALSE]

\* a result card as the renderers leave it
RenderedCard == [EmptyCard EXCEPT !.cls = {"result-card", "fake"}]

\* ----------------------------------------------------------- direct calls
\* A caller has rendered two result cards (renderResultCard / renderResult) and
\* calls animateGauge(root, confidence, color, options) on them.  SpecApi: sequences
\* of calls on the first card.  SpecSingle: one call, any input, either card.
InitCards(missing) ==
    /\ variant \in {1, 2}
    /\ currentRaf = NULL
    /\ gaugeMetrics = NULL
    /\ rafs = <<>>
    /\ timers = <<>>
    /\ nextRaf = 1
    /\ ts = 1
    /\ clock = 0
    /\ \E m \in missing :
         dials = << RenderedDial(RenderedConfidence, 283, Required(2)),
                    RenderedDial(RenderedConfidence, 200, Required(2) \ {m}) >>
    /\ roots = <<1, 2>>
    /\ submitLocked = FALSE
    /\ currentController = NULL
    /\ aborted = {}
    /\ listeners = {}
    /\ card = RenderedCard
    /\ buttons = FALSE
    /\ gauges = <<>>
    /\ calls = <<>>
    /\ runs = <<>>
    /\ lastRun = [op |-> "init", call |-> 0, dial |-> 0, wrote |-> FALSE, same |-> TRUE,
                  quiet |-> TRUE]
    /\ cancelled = {}

\* history: what was going on on dial d when a call arrived
PhaseOf(d) ==
    IF \E i \in DOMAIN rafs : rafs[i].kind = "gauge" /\ rafs[i].dial = d /\ rafs[i].start = 0
    THEN "before first frame"
    ELSE IF \E i \in DOMAIN rafs : rafs[i].kind = "gauge" /\ rafs[i].dial = d
    THEN "mid-animation"
    ELSE IF \E i \in DOMAIN timers : timers[i].kind = "wobble" /\ timers[i].dial = d
    THEN "wobble"
    ELSE "idle"

\* both cards complete
InitApi == InitCards({"none"})

\* the second card may lack an element
InitSingle == InitCards(MissingChoices)

CallAnimateGauge(root, c, reduceMotion, enableWobble, duration) ==
    /\ Len(calls) < MaxCalls
    /\ LET k == Len(calls) + 1
           st == animateGauge(G, variant, root, roots[root], k, c, FakeColor,
                              reduceMotion, duration, enableWobble)
       IN  /\ PutG(st)
           /\ calls' = Append(calls, [root |-> root, dial |-> roots[root], conf |-> c,
                                      reduce |-> reduceMotion, wobble |-> enableWobble,
                                      dur |-> duration, color |-> FakeColor,
                                      phase |-> PhaseOf(roots[root])])
           /\ lastRun' = Ran("animateGauge", k, roots[root], st)
    /\ UNCHANGED <<variant, ts, runs>>

\* the browser delivers the oldest pending frame callback, a gauge frame
GaugeFrame(step) ==
    /\ rafs # <<>>
    /\ Head(rafs).kind = "gauge"
    /\ LET r == Head(rafs)
           st == frame([G EXCEPT !.rafs = Tail(rafs)], variant, r, ts + step)
       IN  /\ ts' = ts + step
           /\ PutG(st)
           /\ lastRun' = Ran("frame", r.call, r.dial, st)
                          @@ [elapsed |-> IF r.start = 0 THEN 0 ELSE ts + step - r.start]
    /\ UNCHANGED <<variant, calls, runs>>

\* the next timer is a wobble step of animateNeedleWobble
WobbleTimer ==
    /\ timers # <<>>
    /\ timers[NextTimer].kind = "wobble"
    /\ LET i == NextTimer
           t == timers[i]
           st == wobble([G EXCEPT !.timers = RemoveAt(timers, i), !.clock = t.due], t)
       IN  /\ PutG(st)
           /\ lastRun' = Ran("wobble", t.call, t.dial, st)
    /\ UNCHANGED <<variant, ts, calls, runs>>

NextApi ==
    \/ \E root \in {1}, c \in ApiConfs, rm \in BOOLEAN, w \in BOOLEAN, du \in Durations :
          CallAnimateGauge(root, c, rm, w, du)
    \/ \E step \in FrameSteps : GaugeFrame(step)
    \/ WobbleTimer

SpecApi == InitApi /\ [][NextApi]_gaugeVars

\* one direct call only, and the browser keeps delivering frames and timers
NextSingle ==
    \/ /\ calls = <<>>
       /\ \E root \in Roots, c \in ConfInputs, rm \in BOOLEAN, w \in BOOLEAN, du \in Durations :
             CallAnimateGauge(root, c, rm, w, du)
    \/ \E step \in FrameSteps : GaugeFrame(step)
    \/ WobbleTimer

\* a pending gauge frame is due: the frame timestamp advances exactly when the
\* browser delivers it (GaugeFrame is the only action that changes ts)
FrameDue ==
    /\ rafs # <<>>
    /\ Head(rafs).kind = "gauge"
    /\ ts' \in {ts + step : step \in FrameSteps}

\* the browser delivers every pending frame callback and fires every pending timer
SpecSingle ==
    /\ InitSingle
    /\ [][NextSingle]_gaugeVars
    /\ WF_ts(FrameDue)
    /\ WF_gaugeVars(WobbleTimer)

\* ------------------------------------------------------- short durations
\* One call of animateGauge of script.js with a duration below or above 200 ms,
\* frames 100 ms or more apart.
ShortDurations == {100, GAUGE_ANIMATION_DURATION}

ShortSteps == {100, 550}

NextShort ==
    \/ /\ calls = <<>>
       /\ \E c \in ApiConfs, rm \in BOOLEAN, w \in BOOLEAN, du \in ShortDurations :
             CallAnimateGauge(1, c, rm, w, du)
    \/ \E step \in ShortSteps : GaugeFrame(step)
    \/ WobbleTimer

SpecShort == InitApi /\ [][NextShort]_gaugeVars

\* ------------------------------------------------------------ two cards
\* Sequences of animateGauge calls of script.js on either of two complete cards,
\* whose arc paths have different lengths.
NextTwo ==
    \/ \E root \in Roots, c \in ApiConfs, rm \in BOOLEAN, du \in Durations :
          CallAnimateGauge(root, c, rm, FALSE, du)
    \/ \E step \in FrameSteps : GaugeFrame(step)

SpecTwo == InitApi /\ [][NextTwo]_gaugeVars

\* ------------------------------------------------------------------ the page
\* The user submits the form (checkLink) at any moment; the browser fires timers
\* and delivers frame callbacks.  #result is root 1.
\* values of #urlInput after trim(), with what new URL() makes of them
UrlInputs ==
    { [text |-> "https://example.com", parses |-> TRUE, protocol |-> "https:",
       punycode |-> FALSE, shortener |-> FALSE, tld |-> ".com", login |-> FALSE],
      [text |-> "http://bit.ly/login", parses |-> TRUE, protocol |-> "http:",
       punycode |-> FALSE, shortener |-> TRUE, tld |-> ".ly", login |-> TRUE],
      [text |-> "https://example.xyz", parses |-> TRUE, protocol |-> "https:",
       punycode |-> FALSE, shortener |-> FALSE, tld |-> ".xyz", login |-> FALSE],
      [text |-> "example", parses |-> FALSE, protocol |-> "",
       punycode |-> FALSE, shortener |-> FALSE, tld |-> "", login |-> FALSE],
      [text |-> "", parses |-> FALSE, protocol |-> "",
       punycode |-> FALSE, shortener |-> FALSE, tld |-> "", login |-> FALSE] }

InitPage ==
    /\ variant \in {1, 2}
    /\ currentRaf = NULL
    /\ gaugeMetrics = NULL
    /\ rafs = <<>>
    /\ timers = <<>>
    /\ nextRaf = 1
    /\ ts = 1
    /\ clock = 0
    /\ dials = <<>>
    /\ roots = <<0>>
    /\ submitLocked = FALSE
    /\ currentController = NULL
    /\ aborted = {}
    /\ listeners = {}
    /\ card \in {EmptyCard, NoCard}
    /\ buttons = FALSE
    /\ gauges = <<>>
    /\ calls = <<>>
    /\ runs = <<>>
    /\ lastRun = [op |-> "init", call |-> 0, dial |-> 0, wrote |-> FALSE, same |-> TRUE,
                  quiet |-> TRUE]
    /\ cancelled = {}

\* the user submits: checkLink runs, accepted or refused by the submit lock
CheckLink(url) ==
    /\ Len(runs) < MaxRuns
    /\ LET run == Len(runs) + 1
           st == checkLink(G, variant, run, url)
       IN  /\ PutG(st)
           /\ runs' = Append(runs, [url |-> url, accepted |-> ~submitLocked])
           /\ lastRun' = Ran("checkLink", run, 0, st)
    /\ UNCHANGED <<variant, ts, calls>>

\* the timer that fires next, taken off the queue
Fired == [G EXCEPT !.timers = RemoveAt(timers, NextTimer), !.clock = timers[NextTimer].due]

\* () => (submitLocked = false) (script.js 61, 621-623)
LockTimer ==
    /\ timers # <<>>
    /\ timers[NextTimer].kind = "lock"
    /\ LET t == timers[NextTimer]
           st == [Fired EXCEPT !.submitLocked = FALSE]
       IN  /\ PutG(st)
           /\ lastRun' = Ran("lock", t.call, 0, st)
    /\ UNCHANGED <<variant, ts, calls, runs>>

\* the 900 ms callback of a run
ResultTimer(reduceMotion) ==
    /\ timers # <<>>
    /\ timers[NextTimer].kind = "result"
    /\ LET t == timers[NextTimer]
           st == resultTimer(Fired, variant, t, reduceMotion)
       IN  /\ PutG(st)
           /\ lastRun' = Ran("result", t.call, 0, st)
    /\ UNCHANGED <<variant, ts, calls, runs>>

\* a stagger timer of a fade-in
StaggerTimer ==
    /\ timers # <<>>
    /\ timers[NextTimer].kind = "stagger"
    /\ LET t == timers[NextTimer]
           st == stagger(Fired, t)
       IN  /\ PutG(st)
           /\ lastRun' = Ran("stagger", t.call, t.dial, st)
    /\ UNCHANGED <<variant, ts, calls, runs>>

\* the browser delivers the oldest pending frame callback, a fade-in
FadeInFrame ==
    /\ rafs # <<>>
    /\ Head(rafs).kind \in {"fade", "fadeSimple"}
    /\ LET r == Head(rafs)
           st == fadeIn([G EXCEPT !.rafs = Tail(rafs)], variant, r)
       IN  /\ PutG(st)
           /\ lastRun' = Ran("fade", r.call, 0, st)
    /\ UNCHANGED <<variant, ts, calls, runs>>

NextPage ==
    \/ \E url \in UrlInputs : CheckLink(url)
    \/ LockTimer
    \/ \E reduceMotion \in BOOLEAN : ResultTimer(reduceMotion)
    \/ StaggerTimer
    \/ FadeInFrame
    \/ \E step \in FrameSteps : GaugeFrame(step)
    \/ WobbleTimer

SpecPage == InitPage /\ [][NextPage]_gaugeVars

\* The browser fires the timer that is due: it leaves the queue, and a needle
\* wobble that has steps left (script.js 443-444, 1043-1044) queues the next one.
TimerDue ==
    /\ timers # <<>>
    /\ LET t == timers[NextTimer]
           rest == RemoveAt(timers, NextTimer)
       IN  timers' = IF t.kind = "wobble" /\ t.count + 1 < t.wobbles * 2
                     THEN Append(rest, [t EXCEPT !.count = t.count + 1, !.dir = -t.dir,
                                                 !.due = t.due + wobbleDuration])
                     ELSE rest

\* The page with fewer inputs: one URL that parses, one that does not and the
\* empty one, and frames far enough apart that an animation takes two of them.
LeanUrls == {u \in UrlInputs : u.text \in {"https://example.com", "example", ""}}

NextLean ==
    \/ \E url \in LeanUrls : CheckLink(url)
    \/ LockTimer
    \/ \E reduceMotion \in BOOLEAN : ResultTimer(reduceMotion)
    \/ StaggerTimer
    \/ FadeInFrame
    \/ GaugeFrame(GAUGE_ANIMATION_DURATION)
    \/ WobbleTimer

SpecLean == InitPage /\ [][NextLean]_gaugeVars

\* The same with the browser's guarantee that a timer that is due fires.
SpecLeanLive == InitPage /\ [][NextLean]_gaugeVars /\ WF_timers(TimerDue)

\* ----------------------------------------------------------- gauge.js callers
\* A caller has built two roots with createGauge(container, 0) and a label, the
\* second one lacking an element, and calls animateGauge of gauge.js on them.  The
\* variable `variant` selects the variant of gauge.js (lines 1-132 or 134-378).
GjConfs == { [t |-> "num", v |-> 30], [t |-> "num", v |-> 150], [t |-> "nan", v |-> 0] }

GjColors == {"", FakeColor}

GjDurations == {100, GAUGE_ANIMATION_DURATION}

GjMissingChoices == {"gauge", "gauge-needle", "confidence-label"}

InitGauge ==
    /\ variant \in {1, 2}
    /\ currentRaf = NULL
    /\ gaugeMetrics = NULL
    /\ rafs = <<>>
    /\ timers = <<>>
    /\ nextRaf = 1
    /\ ts = 1
    /\ clock = 0
    /\ dials = <<>>
    /\ roots = <<0>>
    /\ submitLocked = FALSE
    /\ currentController = NULL
    /\ aborted = {}
    /\ listeners = {}
    /\ card = EmptyCard
    /\ buttons = FALSE
    /\ \E m \in GjMissingChoices :
         gauges = << CreatedGauge([t |-> "num", v |-> 0], {}),
                     CreatedGauge([t |-> "num", v |-> 0], {m}) >>
    /\ calls = <<>>
    /\ runs = <<>>
    /\ lastRun = [op |-> "init", call |-> 0, dial |-> 0, wrote |-> FALSE, same |-> TRUE,
                  quiet |-> TRUE]
    /\ cancelled = {}

\* a call animateGauge(root, confidence, color, {duration, reduceMotion}) of gauge.js
GjCallAnimateGauge(g, c, color, reduceMotion, duration) ==
    /\ Len(calls) < MaxCalls
    /\ LET k == Len(calls) + 1
           st == gjAnimateGauge(G, variant, g, k, c, color, reduceMotion, duration, ts)
       IN  /\ PutG(st)
           /\ calls' = Append(calls, [root |-> g, dial |-> g, conf |-> c,
                                      reduce |-> reduceMotion, wobble |-> FALSE,
                                      dur |-> duration, color |-> color, phase |-> "idle"])
           /\ lastRun' = Ran("gauge.animateGauge", k, g, st)
    /\ UNCHANGED <<variant, ts, runs>>

\* the browser delivers the oldest pending frame callback, a step of animateLabel
GjLabelFrame(step) ==
    /\ rafs # <<>>
    /\ Head(rafs).kind = "label"
    /\ LET r == Head(rafs)
           st == labelStep([G EXCEPT !.rafs = Tail(rafs)], r, ts + step)
       IN  /\ ts' = ts + step
           /\ PutG(st)
           /\ lastRun' = Ran("label", r.call, r.dial, st)
    /\ UNCHANGED <<variant, calls, runs>>

\* the completion timer of a call
GjCompleteTimer ==
    /\ timers # <<>>
    /\ timers[NextTimer].kind = "complete"
    /\ LET t == timers[NextTimer]
           st == gjComplete(Fired, variant, t)
       IN  /\ PutG(st)
           /\ lastRun' = Ran("complete", t.call, t.dial, st)
    /\ UNCHANGED <<variant, ts, calls, runs>>

NextGauge ==
    \/ \E g \in {1, 2}, c \in GjConfs, color \in GjColors, rm \in BOOLEAN,
          du \in GjDurations : GjCallAnimateGauge(g, c, color, rm, du)
    \/ \E step \in FrameSteps : GjLabelFrame(step)
    \/ GjCompleteTimer

SpecGauge == InitGauge /\ [][NextGauge]_gaugeVars

\* percentages createGauge is called with
CreateInputs ==
    { [t |-> "num", v |-> -20], [t |-> "num", v |-> 0], [t |-> "num", v |-> 30],
      [t |-> "num", v |-> 100], [t |-> "num", v |-> 150], [t |-> "nan", v |-> 0] }

\* no gauge built yet
InitCreate ==
    /\ variant \in {1, 2}
    /\ currentRaf = NULL
    /\ gaugeMetrics = NULL
    /\ rafs = <<>>
    /\ timers = <<>>
    /\ nextRaf = 1
    /\ ts = 1
    /\ clock = 0
    /\ dials = <<>>
    /\ roots = <<0>>
    /\ submitLocked = FALSE
    /\ currentController = NULL
    /\ aborted = {}
    /\ listeners = {}
    /\ card = EmptyCard
    /\ buttons = FALSE
    /\ gauges = <<>>
    /\ calls = <<>>
    /\ runs = <<>>
    /\ lastRun = [op |-> "init", call |-> 0, dial |-> 0, wrote |-> FALSE, same |-> TRUE,
                  quiet |-> TRUE]
    /\ cancelled = {}

\* a call createGauge(container, percentage) of gauge.js on a fresh container
GjCreateGauge(percentage) ==
    /\ Len(gauges) < MaxGauges
    /\ LET st == createGauge(G, percentage)
       IN  /\ PutG(st)
           /\ lastRun' = Ran("createGauge", 0, Len(gauges) + 1, st) @@ [arg |-> percentage]
    /\ UNCHANGED <<variant, ts, calls, runs>>

\* gauges are created, and one of them is animated once
NextCreate ==
    \/ \E p \in CreateInputs : GjCreateGauge(p)
    \/ /\ calls = <<>>
       /\ \E g \in DOMAIN gauges, c \in GjConfs, color \in GjColors, rm \in BOOLEAN,
             du \in GjDurations : GjCallAnimateGauge(g, c, color, rm, du)
    \/ \E step \in FrameSteps : GjLabelFrame(step)
    \/ GjCompleteTimer

SpecCreate == InitCreate /\ [][NextCreate]_gaugeVars

\* --------------------------------------------------- src/unnamed/part_000
\* An earlier checkLink: no submit lock and no AbortController.  Every call resets
\* the card and arms a 1200 ms timer; the timer of a valid URL renders the card,
\* kills the animation tracked by resultDiv._raf / resultDiv._timeout and starts a
\* new one, 300 ms later.  performance.now() and the frame timestamps read the
\* same clock, so here `clock` is the time of timers and frames alike; a timer
\* fires at its due time or later.
part0_delay == 1200          \* setTimeout(.., 1200), line 161
part0_startDelay == 300      \* setTimeout(.., 300), line 139
part0_duration == 1200       \* const duration = 1200, line 88
part0_maxArc == 283          \* const maxArc = 283, line 82
part0_pulse == 600           \* setTimeout(.., 600), line 131

\* #result with the two properties the script hangs on it
Part0Card == [raf |-> NULL, timeout |-> NULL] @@ EmptyCard

\* verdict of a URL that parsed (lines 31-43)
part0_verdict(url) ==
    IF url.login \/ url.tld = ".xyz"
    THEN [verdictClass |-> "fake", confidence |-> 30]
    ELSE [verdictClass |-> "safe", confidence |-> 80]

\* strokeColor (lines 85-86)
part0_strokeColor(cls) ==
    IF cls = "safe" THEN "green" ELSE IF cls = "fake" THEN "red" ELSE "orange"

\* resultDiv.innerHTML = `...`: new elements replace the old ones, which stay alive
\* for the callbacks that hold them (lines 22-25, 48-72)
part0_innerHTML(st, run, cls, confidence, parts) ==
    [st EXCEPT !.dials = Append(st.dials, [run |-> run, verdict |-> cls]
                                          @@ RenderedDial(confidence, part0_maxArc, parts)),
               !.roots = [st.roots EXCEPT ![1] = Len(st.dials) + 1]]

\* clearTimeout(id) of a 300 ms start timer
part0_clearTimeout(st, id) ==
    [st EXCEPT !.timers = SelectSeq(st.timers, LAMBDA t : ~(t.kind = "start" /\ t.call = id))]

\* mutant: lingering animations are left alone
part0_kill_skip(st) == st

\* "Kill any lingering animations from previous runs" (lines 90-92)
part0_kill(st) ==
    LET s1 == IF st.card.raf # NULL THEN cancelAnimationFrame(st, st.card.raf) ELSE st
    IN  IF s1.card.timeout # NULL THEN part0_clearTimeout(s1, s1.card.timeout) ELSE s1

\* checkLink (lines 1-14, 161): the reset and the 1200 ms timer
part0_checkLink(st, run, url) ==
    LET s1 == [st EXCEPT !.card.cls = {"result-card"},
                         !.buttons = FALSE,
                         !.roots = [st.roots EXCEPT ![1] = 0]]
        s2 == [s1 EXCEPT !.card.cls = @ \cup {"loading"}]
    IN  setTimeout(s2, [NoTimer EXCEPT !.kind = "result", !.call = run, !.url = url],
                   part0_delay)

\* the 1200 ms callback (lines 14-161)
part0_result(st, t) ==
    LET s0 == [st EXCEPT !.card.cls = @ \ {"loading"}]
    IN  IF ~t.url.parses
        THEN [part0_innerHTML(s0, t.call, "unknown", 0, {})
                EXCEPT !.card.cls = @ \cup {"unknown", "show"}]
        ELSE
          LET v == part0_verdict(t.url)
              s1 == part0_innerHTML([s0 EXCEPT !.card.cls = @ \cup {v.verdictClass}], t.call,
                                    v.verdictClass, v.confidence,
                                    {"fill", "needle", "label", "gauge"})
              d == s1.roots[1]
              clamped == IF v.confidence < 0 THEN 0
                                ELSE IF v.confidence > 100 THEN 100 ELSE v.confidence
              s2 == part0_kill(s1)
              s3 == setTimeout([s2 EXCEPT !.card.timeout = t.call],
                               [start |-> s2.clock, sc |-> clamped,
                                color |-> part0_strokeColor(v.verdictClass)]
                               @@ [NoTimer EXCEPT !.kind = "start", !.call = t.call,
                                                  !.dial = d],
                               part0_startDelay)
              s4 == [s3 EXCEPT !.card.summary = t.call, !.card.cls = @ \cup {"show"}]
              s5 == [s4 EXCEPT
                       !.rafs = @ \o [i \in 1..4 |->
                                        [el |-> i, color |-> ""]
                                        @@ [NoRaf EXCEPT !.kind = "fadeStep", !.dial = d,
                                                         !.call = t.call,
                                                         !.id = s4.nextRaf + i - 1]],
                       !.nextRaf = @ + 4]
          IN  [s5 EXCEPT !.buttons = TRUE]

\* the 300 ms callback (lines 96, 138): the first frame is requested
part0_start(st, t) ==
    LET s1 == requestAnimationFrame(st, [el |-> 0, color |-> t.color]
                                        @@ [NoRaf EXCEPT !.kind = "animate", !.dial = t.dial,
                                                         !.call = t.call, !.start = t.start,
                                                         !.sc = t.sc, !.maxArc = part0_maxArc,
                                                         !.dur = part0_duration])
    IN  [s1 EXCEPT !.card.raf = st.nextRaf]

\* mutant: an easing that runs ahead of the progress
part0_eased_ahead(progress) == RMul(Rat(3, 2), progress)

\* eased = 1 - Math.pow(1 - progress, 3) (line 102)
part0_eased(progress) == easeOutCubic(progress)

\* Math.max(-90, Math.min(90, angle)) (lines 114, 126)
part0_clampAngle(angle) == RMax(RInt(-90), RMin(RInt(90), angle))

\* animate(time) (lines 97-137)
part0_animate(st, r, time) ==
    LET elapsed == time - r.start
        progress == RMin(Rat(elapsed, r.dur), RInt(1))
        eased == part0_eased(progress)
        arc == Rat(r.sc * r.maxArc, 100)
        currentArc == RMul(arc, eased)
        targetAngle == RAdd(RInt(-90), Rat(r.sc * 180, 100))
        angle == part0_clampAngle(RAdd(RInt(-90), RMul(RAdd(targetAngle, RInt(90)), eased)))
        rounded == MathRound(RMul(RInt(r.sc), eased))
        currentValue == IF r.sc < rounded THEN r.sc ELSE rounded
        d == st.dials[r.dial]
        drawn == [d EXCEPT !.dash = <<currentArc, RSub(RInt(r.maxArc), currentArc)>>,
                           !.stroke = r.color,
                           !.needle = angle,
                           !.label = currentValue]
    IN  IF RLess(progress, RInt(1))
        THEN LET s1 == requestAnimationFrame(WriteDial(st, r.dial, drawn), r)
             IN  [s1 EXCEPT !.card.raf = st.nextRaf]
        ELSE LET settled == [drawn EXCEPT !.needle = part0_clampAngle(targetAngle),
                                          !.label = r.sc,
                                          !.labelCls = @ \cup {"pulse"}]
                 s1 == setTimeout(WriteDial(st, r.dial, settled),
                                  [NoTimer EXCEPT !.kind = "pulse", !.call = r.call,
                                                  !.dial = r.dial],
                                  part0_pulse)
             IN  [s1 EXCEPT !.card.raf = NULL, !.card.timeout = NULL]

\* () => label.classList.remove("pulse") (line 131)
part0_pulseOff(st, t) ==
    WriteDial(st, t.dial, [st.dials[t.dial] EXCEPT !.labelCls = @ \ {"pulse"}])

\* () => el.classList.add("show") (line 155)
part0_fadeStep(st, r) ==
    WriteDial(st, r.dial, [st.dials[r.dial] EXCEPT !.shown = @ \cup {r.el}])

\* values of #urlInput; new URL('') throws as new URL('example') does
Part0Urls == {u \in UrlInputs : u.text \in {"https://example.com", "http://bit.ly/login",
                                            "example"}}

\* time between the moment a frame could be delivered and the moment it is
Part0Steps == {250, 700}

InitPart0 ==
    /\ variant = 1
    /\ currentRaf = NULL
    /\ gaugeMetrics = NULL
    /\ rafs = <<>>
    /\ timers = <<>>
    /\ nextRaf = 1
    /\ ts = 1
    /\ clock = 0
    /\ dials = <<>>
    /\ roots = <<0>>
    /\ submitLocked = FALSE
    /\ currentController = NULL
    /\ aborted = {}
    /\ listeners = {}
    /\ card = Part0Card
    /\ buttons = FALSE
    /\ gauges = <<>>
    /\ calls = <<>>
    /\ runs = <<>>
    /\ lastRun = [op |-> "init", call |-> 0, dial |-> 0, wrote |-> FALSE, same |-> TRUE,
                  quiet |-> TRUE]
    /\ cancelled = {}

\* the user submits the form
Part0CheckLink(url) ==
    /\ Len(runs) < MaxRuns
    /\ LET run == Len(runs) + 1
           st == part0_checkLink(G, run, url)
       IN  /\ PutG(st)
           /\ runs' = Append(runs, [url |-> url, accepted |-> TRUE])
           /\ lastRun' = Ran("checkLink", run, 0, st)
    /\ UNCHANGED <<variant, ts, calls>>

\* the timer that fires next, taken off the queue, at its due time or later
Part0Fired ==
    [G EXCEPT !.timers = RemoveAt(timers, NextTimer),
              !.clock = IF timers[NextTimer].due > clock THEN timers[NextTimer].due
                        ELSE clock]

Part0ResultTimer ==
    /\ timers # <<>>
    /\ timers[NextTimer].kind = "result"
    /\ LET t == timers[NextTimer]
           st == part0_result(Part0Fired, t)
       IN  /\ PutG(st)
           /\ lastRun' = Ran("result", t.call, st.roots[1], st)
    /\ UNCHANGED <<variant, ts, calls, runs>>

Part0StartTimer ==
    /\ timers # <<>>
    /\ timers[NextTimer].kind = "start"
    /\ LET t == timers[NextTimer]
           st == part0_start(Part0Fired, t)
       IN  /\ PutG(st)
           /\ lastRun' = Ran("start", t.call, t.dial, st)
    /\ UNCHANGED <<variant, ts, calls, runs>>

Part0PulseTimer ==
    /\ timers # <<>>
    /\ timers[NextTimer].kind = "pulse"
    /\ LET t == timers[NextTimer]
           st == part0_pulseOff(Part0Fired, t)
       IN  /\ PutG(st)
           /\ lastRun' = Ran("pulse", t.call, t.dial, st)
    /\ UNCHANGED <<variant, ts, calls, runs>>

\* the browser delivers the oldest pending frame callback: a frame of the gauge
Part0Animate(step) ==
    /\ rafs # <<>>
    /\ Head(rafs).kind = "animate"
    /\ LET r == Head(rafs)
           time == clock + step
           st == part0_animate([G EXCEPT !.rafs = Tail(rafs), !.clock = time], r, time)
       IN  /\ PutG(st)
           /\ lastRun' = Ran("animate", r.call, r.dial, st)
                          @@ [before |-> dials[r.dial], sc |-> r.sc,
                              done |-> st.card.raf = NULL]
    /\ UNCHANGED <<variant, ts, calls, runs>>

\* ... or the fade-in of one element
Part0FadeStep ==
    /\ rafs # <<>>
    /\ Head(rafs).kind = "fadeStep"
    /\ LET r == Head(rafs)
           st == part0_fadeStep([G EXCEPT !.rafs = Tail(rafs)], r)
       IN  /\ PutG(st)
           /\ lastRun' = Ran("fadeStep", r.call, r.dial, st)
    /\ UNCHANGED <<variant, ts, calls, runs>>

NextPart0 ==
    \/ \E url \in Part0Urls : Part0CheckLink(url)
    \/ Part0ResultTimer
    \/ Part0StartTimer
    \/ Part0PulseTimer
    \/ \E step \in Part0Steps : Part0Animate(step)
    \/ Part0FadeStep

SpecPart0 == InitPart0 /\ [][NextPart0]_gaugeVars

\* ------------------------------------------------------------ the URL score
\* analyzeUrl applied to one parsed URL: every combination of what the heuristics
\* look at (protocol, punycode host, shortener host, TLD, login keyword).
ScoreUrls ==
    [text : {"url"}, parses : {TRUE}, protocol : {"http:", "https:", "ftp:"},
     punycode : BOOLEAN, shortener : BOOLEAN, tld : {".com", ".xyz", ".top"},
     login : BOOLEAN]

InitScore ==
    /\ variant \in {1, 2}
    /\ currentRaf = NULL
    /\ gaugeMetrics = NULL
    /\ rafs = <<>>
    /\ timers = <<>>
    /\ nextRaf = 1
    /\ ts = 1
    /\ clock = 0
    /\ dials = <<>>
    /\ roots = <<0>>
    /\ submitLocked = FALSE
    /\ currentController = NULL
    /\ aborted = {}
    /\ listeners = {}
    /\ card = EmptyCard
    /\ buttons = FALSE
    /\ gauges = <<>>
    /\ calls = <<>>
    /\ \E url \in ScoreUrls : runs = <<[url |-> url, accepted |-> TRUE]>>
    /\ lastRun = [op |-> "init", call |-> 0, dial |-> 0, wrote |-> FALSE, same |-> TRUE,
                  quiet |-> TRUE]
    /\ cancelled = {}

\* the score and the verdict are computed (script.js 114-143; analyzeUrl 674-710)
AnalyzeUrl ==
    /\ lastRun.op = "init"
    /\ lastRun' = Ran("analyzeUrl", 1, 0, G)
                   @@ [verdict |-> analyzeUrl(variant, runs[1].url),
                       scores |-> issueScores(variant, runs[1].url)]
    /\ UNCHANGED <<variant, currentRaf, gaugeMetrics, rafs, timers, nextRaf, ts, clock,
                   dials, roots, submitLocked, currentController, aborted, listeners,
                   card, buttons, gauges, calls, runs, cancelled>>

NextScore == AnalyzeUrl

SpecScore == InitScore /\ [][NextScore]_gaugeVars

\* ------------------------------------------------------- what the claims speak of
\* the root of call k holds every element animateGauge needs
Effective(k) == calls[k].dial # 0 /\ Required(variant) \subseteq dials[calls[k].dial].parts

Quiescent == rafs = <<>> /\ timers = <<>>

PendingFrames(d) == {i \in DOMAIN rafs : rafs[i].kind = "gauge" /\ rafs[i].dial = d}

\* the confidence the specification wants rendered: clamped to [0,100], NaN as 0
ClampSpec(c) ==
    IF c.t # "num" THEN 0 ELSE IF c.v < 0 THEN 0 ELSE IF c.v > 100 THEN 100 ELSE c.v

\* label 'Confidence: x%', needle at -90 + (x/100)*180, arc dash (x/100) of the path
Shows(d, x) ==
    /\ d.label = x
    /\ d.needle = Rat(-450 + 9 * x, 5)
    /\ d.dash[1] = Rat(x * d.pathLen, 100)

\* the values the arc, the needle and the label encode, in percent
DashValue(d) ==
    LET total == RAdd(d.dash[1], d.dash[2])
    IN  RMul(RInt(100), RDiv(d.dash[1], total))
NeedleValue(d) == RMul(RAdd(d.needle, RInt(90)), Rat(100, 180))

SameArgs(a, b) ==
    /\ a.root = b.root /\ a.conf = b.conf /\ a.reduce = b.reduce
    /\ a.wobble = b.wobble /\ a.dur = b.dur

\* ------------------------------------------------------------------ claims
\* C1: with reduceMotion false calls on one card, interleaved with frame callbacks,
\* at most one animateGauge frame callback is pending for the card at any time,
\* and right after such a call exactly one is pending: the call's own, whose
\* handle is the one stored in currentRaf.
C1_OneFrameLoop ==
    /\ \A d \in DOMAIN dials : Cardinality(PendingFrames(d)) <= 1
    /\ (lastRun.op = "animateGauge" /\ Effective(lastRun.call) /\ ~calls[lastRun.call].reduce)
          => \E i \in DOMAIN rafs :
                /\ PendingFrames(lastRun.dial) = {i}
                /\ rafs[i].call = lastRun.call
                /\ rafs[i].id = currentRaf

\* a second animated call arrived while the first call's frame was still pending
C1_Witness ==
    /\ lastRun.op = "animateGauge" /\ lastRun.call = 2
    /\ ~calls[1].reduce /\ ~calls[2].reduce /\ calls[1].dial = calls[2].dial
    /\ lastRun.dial \in cancelled
    /\ Cardinality(PendingFrames(lastRun.dial)) = 1

\* C2 (as claimed): whatever the targets and reduceMotion flags of the calls made on
\* one dial, once every pending callback has run the label, the arc and the needle
\* show the target of the most recent call.
C2_ShowsMostRecent ==
    (/\ Quiescent /\ calls # <<>>
     /\ \A k \in DOMAIN calls : calls[k].dial = calls[1].dial /\ Effective(k))
    => Shows(dials[calls[1].dial], ClampSpec(calls[Len(calls)].conf))

\* C3: for every confidence input the final state shows the input clamped to
\* [0,100] (NaN and non-numeric as 0); 150 ends exactly as 100 does (label 100,
\* needle at +90, the whole path dashed) and a negative input as 0 does.
C3_Clamped ==
    (Quiescent /\ Len(calls) = 1 /\ Effective(1))
    => LET c == calls[1].conf
           d == dials[calls[1].dial]
       IN  /\ Shows(d, ClampSpec(c))
           /\ (c.t = "num" /\ c.v >= 100)
                 => d.label = 100 /\ d.needle = RInt(90) /\ d.dash = <<RInt(d.pathLen), RInt(0)>>
           /\ (c.t # "num" \/ c.v <= 0)
                 => d.label = 0 /\ d.needle = RInt(-90) /\ d.dash = <<RInt(0), RInt(d.pathLen)>>

\* an animated call with confidence 150 has run to its end
C3_Witness ==
    /\ Quiescent /\ Len(calls) = 1 /\ Effective(1)
    /\ calls[1].conf = [t |-> "num", v |-> 150] /\ ~calls[1].reduce
    /\ lastRun.op \in {"frame", "wobble"}

\* C4: an animated call (reduceMotion false, positive duration) that no other call
\* disturbs eventually comes to rest, no frame and no wobble step pending, with the
\* label reading exactly the clamped confidence v, the needle at exactly
\* -90 + (v/100)*180 and the arc dash at exactly (v/100) of the path; and every
\* state of rest after such a call is that state, whatever frames were delivered.
C4_Started == Len(calls) = 1 /\ Effective(1) /\ ~calls[1].reduce

C4_AtRest ==
    /\ Len(calls) = 1
    /\ Quiescent
    /\ Shows(dials[calls[1].dial], ClampSpec(calls[1].conf))

C4_ReachesTarget ==
    /\ C4_Started ~> C4_AtRest
    /\ [](C4_Started /\ Quiescent => C4_AtRest)

\* the animation of a call to 30 has ended, the completion wobble included
C4_Witness ==
    /\ C4_Started /\ Quiescent /\ calls[1].wobble
    /\ calls[1].conf = [t |-> "num", v |-> 30]
    /\ lastRun.op = "wobble"

\* C5: a call with reduceMotion true has, on return, written the final arc dash,
\* end marker, needle angle and label of the clamped target, and no animation frame
\* and no timer of that call exists, then or later.
C5_ReducedMotionSnaps ==
    /\ \A k \in DOMAIN calls :
          calls[k].reduce =>
             /\ \A i \in DOMAIN rafs : rafs[i].call # k
             /\ \A i \in DOMAIN timers : timers[i].call # k
    /\ (lastRun.op = "animateGauge" /\ Effective(lastRun.call) /\ calls[lastRun.call].reduce)
          => LET d == dials[lastRun.dial]
             IN  /\ Shows(d, ClampSpec(calls[lastRun.call].conf))
                 /\ d.endAt = d.dash[1]

\* a reduceMotion call to 150 has just returned, made while an animation was running
C5_Witness ==
    /\ lastRun.op = "animateGauge" /\ lastRun.call = 2 /\ calls[2].reduce
    /\ calls[2].conf = [t |-> "num", v |-> 150]
    /\ calls[2].phase = "mid-animation"

\* C6 (as claimed): a dial whose animation was cancelled, at any point after
\* animateGauge was called, shows one and the same value on its arc, its needle and
\* its label (the label being that value rounded) until something redraws it.
C6_CancelLeavesConsistent ==
    \A d \in cancelled :
        /\ DashValue(dials[d]) = NeedleValue(dials[d])
        /\ dials[d].label = MathRound(DashValue(dials[d]))

\* C7 (as claimed): no callback created by a run that a later accepted checkLink
\* superseded (result timer, fade-in frame, stagger timer, gauge frame, wobble timer)
\* changes the result card or anything inside it.
C7_SupersededRunIsSilent ==
    ~ /\ lastRun.op \in {"result", "fade", "stagger", "frame", "wobble"}
      /\ lastRun.call \in aborted
      /\ \E k \in DOMAIN runs : k > lastRun.call /\ runs[k].accepted
      /\ lastRun.wrote

\* C8 (as claimed): once an animated animateGauge call has started on a dial, no
\* frame and no wobble timer of an earlier call on that dial runs (each of them
\* writes the needle's transform, the wobble steps its transition too).
C8_SingleWriter ==
    lastRun.op \in {"frame", "wobble"}
    => ~ \E k \in DOMAIN calls :
            /\ k > lastRun.call
            /\ calls[k].dial = lastRun.dial
            /\ Effective(k) /\ ~calls[k].reduce

\* the final needle transition of one call: the wobble ends on 'none', the first
\* variant also sets 'none' before its first frame; otherwise it is never written
OnceTransition(c) ==
    IF c.reduce THEN "" ELSE IF c.wobble \/ variant = 1 THEN "none" ELSE ""

\* C9 (as claimed): a call of animateGauge, of script.js or of gauge.js, on a root
\* that lacks an element the function needs changes nothing: no attribute, style,
\* class or text of the root or of anything inside it, and no frame or timer.
C9_MissingElementNoOp ==
    /\ (lastRun.op = "animateGauge" /\ ~Effective(lastRun.call)) => lastRun.same
    /\ (lastRun.op = "gauge.animateGauge"
          /\ ~(gjRequired \subseteq gauges[lastRun.dial].parts)) => lastRun.same

\* gauge.js: call k was made on a root holding what animateGauge needs
GjEffective(k) == gjRequired \subseteq gauges[calls[k].dial].parts

\* gauge.js: the pending animateLabel loops and completion timers of root g
LabelLoops(g) == {i \in DOMAIN rafs : rafs[i].kind = "label" /\ rafs[i].dial = g}
CompleteTimers(g) == {i \in DOMAIN timers : timers[i].kind = "complete" /\ timers[i].dial = g}

\* C11 (as claimed): in gauge.js, after a second animated call on a root at most one
\* animateLabel loop writes its label and at most one completion timer is pending.
C11_NoLeakedLoop ==
    \A g \in DOMAIN gauges :
        /\ Cardinality(LabelLoops(g)) <= 1
        /\ Cardinality(CompleteTimers(g)) <= 1

\* gauge.js: the root shows x on its label, its arc and its needle
GjShows(g, x) ==
    /\ g.label = RInt(x)
    /\ g.dashoffset = Rat(100 - x, 100)
    /\ g.needleAngle = Rat(-900 + 9 * x, 5)

\* C12 (as claimed): in gauge.js, once the animation of a call with a numeric
\* confidence has ended, the label, the arc's stroke-dashoffset and the needle angle
\* all show the confidence clamped to [0,100]: 150 ends as 100 does.
C12_GjClamped ==
    (/\ Quiescent /\ Len(calls) = 1 /\ GjEffective(1)
     /\ calls[1].conf.t = "num" /\ ~calls[1].reduce
     /\ "confidence-label" \in gauges[calls[1].dial].parts)
    => GjShows(gauges[calls[1].dial], ClampSpec(calls[1].conf))

\* C13 (as claimed): in gauge.js a NaN confidence is never propagated: no
\* stroke-dashoffset, no needle rotation and no label is ever NaN.
C13_GjNoNaN ==
    \A g \in DOMAIN gauges :
        /\ ~IsNaN(gauges[g].dashoffset)
        /\ ~IsNaN(gauges[g].needleAngle)
        /\ ~IsNaN(gauges[g].label)

\* C14 (as claimed): in gauge.js a call with reduceMotion true has, on return, put
\* the arc's stroke-dashoffset, the needle angle and the label at the clamped
\* target, with both transitions 'none' and no label loop of the call running.
C14_GjReducedMotionSnaps ==
    (/\ lastRun.op = "gauge.animateGauge" /\ GjEffective(lastRun.call)
     /\ calls[lastRun.call].reduce /\ calls[lastRun.call].conf.t = "num"
     /\ "confidence-label" \in gauges[lastRun.dial].parts)
    => LET g == gauges[lastRun.dial]
       IN  /\ GjShows(g, ClampSpec(calls[lastRun.call].conf))
           /\ g.valueTransition = NoTransition /\ g.needleTransition = NoTransition
           /\ \A i \in LabelLoops(lastRun.dial) : rafs[i].call # lastRun.call

\* gauge.js: the most recently started animation on root g (0: none)
LastCallOn(g) ==
    LET ks == {k \in DOMAIN calls : calls[k].dial = g /\ GjEffective(k)}
    IN  IF ks = {} THEN 0 ELSE CHOOSE k \in ks : \A j \in ks : j <= k

\* C15 (as claimed): in gauge.js the svg never carries 'complete' while the most
\* recently started animation of its root is still in flight, that is while the
\* label loop of that call is still running and its completion timer still pending.
C15_CompleteOnlyWhenDone ==
    \A g \in DOMAIN gauges :
        "complete" \in gauges[g].svgCls
        => ~ /\ \E i \in LabelLoops(g) : rafs[i].call = LastCallOn(g)
             /\ \E i \in CompleteTimers(g) : timers[i].call = LastCallOn(g)

\* C16: createGauge(container, p) of gauge.js, p a number, leaves the new dial in
\* the static state of c = min(100, max(0, p)): stroke-dashoffset
\* ARC_LENGTH * (1 - c/100), needle angle -180 + (c/100) * 180, both transitions
\* 'none'; and it schedules no animation frame and no timer.
C16_CreateGaugeStatic ==
    (lastRun.op = "createGauge" /\ lastRun.arg.t = "num")
    => LET g == gauges[lastRun.dial]
           c == ClampSpec(lastRun.arg)
       IN  /\ g.dashoffset = Rat(100 - c, 100)
           /\ g.needleAngle = Rat(-900 + 9 * c, 5)
           /\ g.valueTransition = NoTransition /\ g.needleTransition = NoTransition
           /\ lastRun.quiet

\* createGauge(container, 150) has just built a second gauge while the first one
\* is being animated
C16_Witness ==
    /\ lastRun.op = "createGauge" /\ lastRun.arg = [t |-> "num", v |-> 150]
    /\ lastRun.dial = 2 /\ rafs # <<>> /\ timers # <<>>

\* C17 (as claimed): whatever options.duration is, the animation of animateGauge
\* runs over at least 200 ms: the frame that ends it (progress 1, no further frame
\* requested) comes no earlier than 200 ms after the first frame.
C17_DurationFloor ==
    (lastRun.op = "frame" /\ PendingFrames(lastRun.dial) = {})
    => lastRun.elapsed >= 200

\* C18 (as claimed): animateGauge on one root does not stall the animation in
\* flight on another root: when one call was made on each of two cards and nothing
\* is pending any more, the label and the needle of each card are at the target of
\* its call.
C18_GaugesCoexist ==
    (/\ Quiescent /\ Len(calls) = 2
     /\ calls[1].dial # calls[2].dial /\ Effective(1) /\ Effective(2))
    => \A k \in {1, 2} :
          LET d == dials[calls[k].dial]
              x == ClampSpec(calls[k].conf)
          IN  d.label = x /\ d.needle = Rat(-450 + 9 * x, 5)

\* C19 (as claimed): the arc a call writes is (v/100) of the length of the path of
\* the dial it animates: a call with reduceMotion true leaves the dash at
\* (v/100) * getTotalLength() and the gap at the rest of that length.
C19_ArcFromOwnPath ==
    (lastRun.op = "animateGauge" /\ Effective(lastRun.call) /\ calls[lastRun.call].reduce)
    => LET d == dials[lastRun.dial]
           arc == Rat(ClampSpec(calls[lastRun.call].conf) * d.pathLen, 100)
       IN  d.dash = <<arc, RSub(RInt(d.pathLen), arc)>>

\* C20 (as claimed): checkLink gives every URL that parses and contains 'login' or
\* 'secure', or whose host ends in '.xyz', the verdict 'Likely Fake' (class fake).
C20_SuspiciousIsFake ==
    (/\ lastRun.op = "result" /\ lastRun.call \notin aborted
     /\ LET url == runs[lastRun.call].url
        IN  url.parses /\ (url.login \/ url.tld = ".xyz"))
    => "fake" \in card.cls

\* the checkLink runs the submit lock let through, and the last of them
AcceptedRuns == {k \in DOMAIN runs : runs[k].accepted}
LatestAccepted == CHOOSE k \in AcceptedRuns : \A j \in AcceptedRuns : j <= k

\* the pending 900 ms timers whose run has not been aborted
LiveResultTimers == {i \in DOMAIN timers : timers[i].kind = "result" /\ timers[i].call \notin aborted}

\* the card carries a verdict class, put there by a renderer
ShowsVerdict == card.cls \cap {"safe", "fake", "unknown"} # {}

\* C21 (as claimed): at most one un-aborted result timer is pending; a result timer
\* that renders belongs to the most recently accepted checkLink; and an accepted
\* checkLink leaves no verdict of an earlier run on the card, so that the card only
\* ever shows the verdict of the most recently accepted submission.
C21_OnlyLatestVerdict ==
    /\ Cardinality(LiveResultTimers) <= 1
    /\ (lastRun.op = "result" /\ lastRun.wrote) => lastRun.call = LatestAccepted
    /\ (lastRun.op = "checkLink" /\ runs[lastRun.call].accepted) => ~ShowsVerdict

\* C22: a checkLink call made while the submit lock is held changes nothing: the
\* pending check, the frames and timers (the lock timer among them), the gauge
\* and the result card are all as they were.
C22_LockedCallNoOp ==
    (lastRun.op = "checkLink" /\ ~runs[lastRun.call].accepted) => lastRun.same

\* a refused call came while the check of the accepted one was pending
C22_Witness ==
    /\ lastRun.op = "checkLink" /\ ~runs[lastRun.call].accepted
    /\ LiveResultTimers # {}
    /\ \E i \in DOMAIN timers : timers[i].kind = "lock"
    /\ "loading" \in card.cls

\* C23: the submit lock is always released: whenever submitLocked is true it
\* becomes false again, whichever way the accepted checkLink returned.
C23_LockReleased == submitLocked ~> ~submitLocked

\* the lock of a call that returned early has been released: the page has no
\* #result, or the URL was empty (v2.0)
C23_Witness ==
    /\ lastRun.op = "lock" /\ ~submitLocked
    /\ runs[lastRun.call].accepted
    /\ ~card.present \/ (variant = 2 /\ runs[lastRun.call].url.text = "")

\* C24: the result card carries the class 'loading' exactly while a result timer
\* of a run that has not been aborted is pending.
C24_LoadingIffPending == ("loading" \in card.cls) <=> (LiveResultTimers # {})

\* a pending check was aborted by a submission that started none (v2.0, empty
\* URL): the class went with the timer
C24_Witness ==
    /\ lastRun.op = "checkLink" /\ runs[lastRun.call].accepted
    /\ lastRun.call - 1 \in aborted
    /\ lastRun.wrote
    /\ "loading" \notin card.cls

\* C25 (as claimed): in v2.0, whenever no check is pending (the run rendered a
\* verdict, rendered 'Invalid URL format', or was aborted) the result card does
\* not carry aria-busy='true'.
C25_BusyCleared == (variant = 2 /\ LiveResultTimers = {}) => ~card.busy

\* the card displays the verdict of a URL that parsed
ShowsValidVerdict == card.cls \cap {"safe", "fake"} # {} /\ roots[1] # 0

\* C26: the copy/share buttons are visible only while the result card displays a
\* valid-URL verdict of a finished check: never while the card is loading and never
\* next to 'Invalid URL format'.
C26_ButtonsOnlyWithVerdict ==
    buttons => /\ ShowsValidVerdict
               /\ "loading" \notin card.cls
               /\ "unknown" \notin card.cls
               /\ LiveResultTimers = {}

\* the second of two checks has finished with a verdict and shown the buttons
C26_Witness ==
    /\ buttons /\ lastRun.op = "result" /\ lastRun.call = 2
    /\ runs[1].accepted /\ runs[2].accepted

\* what #result displays in part_000: the content its innerHTML holds, if any
Part0Shown == IF roots[1] = 0 THEN [run |-> 0, verdict |-> ""] ELSE dials[roots[1]]

\* C27 (as claimed): in part_000, for any sequence of submissions, the copy/share
\* buttons are visible only while the card displays a valid-URL verdict, and a
\* stored summary describes the verdict the card displays; so buttons are never
\* visible next to 'Invalid URL format'.
C27_Part0ButtonsAndSummary ==
    /\ buttons => Part0Shown.verdict \in {"safe", "fake"}
    /\ (Part0Shown.run # 0 /\ card.summary # 0) => card.summary = Part0Shown.run

\* the gauge animations of part_000 that are active: the runs with a pending
\* 300 ms start timer or a pending frame of the loop
Part0Starting == {timers[i].call : i \in {j \in DOMAIN timers : timers[j].kind = "start"}}
Part0Looping == {rafs[i].call : i \in {j \in DOMAIN rafs : rafs[j].kind = "animate"}}

\* C28: in part_000 at most one gauge animation is active, its start timer
\* tracked by resultDiv._timeout and its pending frame by resultDiv._raf, and
\* both trackers are null when the frame that completes the animation has run.
C28_Part0OneAnimation ==
    /\ Cardinality(Part0Starting \cup Part0Looping) <= 1
    /\ Cardinality({i \in DOMAIN timers : timers[i].kind = "start"}) +
       Cardinality({i \in DOMAIN rafs : rafs[i].kind = "animate"}) <= 1
    /\ \A i \in DOMAIN timers : timers[i].kind = "start" => card.timeout = timers[i].call
    /\ \A i \in DOMAIN rafs : rafs[i].kind = "animate" => card.raf = rafs[i].id
    /\ (lastRun.op = "animate" /\ lastRun.done) => card.raf = NULL /\ card.timeout = NULL

\* the second run rendered while the first run's frame loop was going, and its own
\* animation has since completed
C28_Witness ==
    /\ lastRun.op = "animate" /\ lastRun.done /\ lastRun.call = 2
    /\ runs[1].url = runs[2].url
    /\ dials[1].stroke # "" /\ RLess(dials[1].dash[1], dials[2].dash[1])

\* target needle angle of a confidence: -90 + (safeConfidence / 100) * 180
Part0TargetAngle(sc) == RAdd(RInt(-90), Rat(sc * 180, 100))

\* C29: on every frame of part_000's gauge animation the needle angle lies in
\* [-90, 90] and does not pass the target angle, the number displayed does not
\* exceed the clamped confidence, and neither the number nor the angle is lower
\* than the frame before left it.
C29_Part0NoOvershoot ==
    lastRun.op = "animate"
    => LET d == dials[lastRun.dial]
           b == lastRun.before
       IN  /\ ~RLess(d.needle, RInt(-90)) /\ ~RLess(RInt(90), d.needle)
           /\ ~RLess(Part0TargetAngle(lastRun.sc), d.needle)
           /\ d.label <= lastRun.sc
           /\ b.stroke # "" => (~RLess(d.needle, b.needle) /\ b.label <= d.label)

\* a frame in the course of an animation, after an earlier frame of it and before
\* the target is reached
C29_Witness ==
    /\ lastRun.op = "animate" /\ ~lastRun.done
    /\ lastRun.before.stroke # ""
    /\ RLess(lastRun.before.needle, dials[lastRun.dial].needle)
    /\ dials[lastRun.dial].label < lastRun.sc

\* C30 (as claimed): on every frame of the v2.0 animateGauge loop the needle angle
\* is -90 + eased * (targetAngle + 90), so it lies between -90 and the target
\* angle and stands for the value the label of that frame shows; and from one frame
\* of the loop to the next it does not decrease.
C30_V2NeedleLinear ==
    /\ [](  (variant = 2 /\ lastRun.op = "frame" /\ PendingFrames(lastRun.dial) # {})
            => LET d == dials[lastRun.dial]
                   c == calls[lastRun.call]
                   targetAngle == Rat(-450 + 9 * ClampSpec(c.conf), 5)
                   eased == easeOutCubic(RMin(Rat(lastRun.elapsed, c.dur), RInt(1)))
               IN  /\ d.needle = RAdd(RInt(-90), RMul(eased, RAdd(targetAngle, RInt(90))))
                   /\ ~RLess(d.needle, RInt(-90)) /\ ~RLess(targetAngle, d.needle)
                   /\ d.label = MathRound(NeedleValue(d)) )
    /\ [][ (variant = 2 /\ lastRun'.op = "frame" /\ lastRun'.elapsed > 0)
           => ~RLess(dials'[lastRun'.dial].needle, dials[lastRun'.dial].needle) ]_gaugeVars

\* C31 (as claimed): in the first variant, for a confidence in [0, 100], the needle
\* of the dial animateGauge was called on is within [-90, 90] degrees in every
\* state: during the frames, at completion and during the wobble.
C31_NeedleInSweep ==
    (/\ variant = 1 /\ Len(calls) = 1 /\ Effective(1)
     /\ calls[1].conf.t = "num" /\ calls[1].conf.v >= 0 /\ calls[1].conf.v <= 100)
    => LET d == dials[calls[1].dial]
       IN  ~RLess(d.needle, RInt(-90)) /\ ~RLess(RInt(90), d.needle)

\* the pending steps of a needle wobble
WobbleTimers == {i \in DOMAIN timers : timers[i].kind = "wobble"}

\* between two steps of a wobble: 1 to 2n - 1 steps are done, the directions
\* alternate from +1, and the needle stands 8 degrees off the base angle, on the
\* side of the step last taken, under the wobble's transition
MidWobble(t) ==
    /\ t.count >= 1 /\ t.count < 2 * t.wobbles
    /\ t.dir = (IF t.count % 2 = 1 THEN -1 ELSE 1)
    /\ dials[t.dial].needle = RAdd(t.base, RInt(-t.dir * wobbleAmount))
    /\ dials[t.dial].transition = wobbleTransition

\* C32: animateNeedleWobble(needle, baseAngle, n) terminates: it takes exactly 2n
\* steps of alternating direction, each 8 degrees off baseAngle, and the last one
\* leaves the needle at baseAngle with transition 'none' and no wobble timer.
C32_WobbleTerminates ==
    /\ [](\A i \in WobbleTimers : MidWobble(timers[i]))
    /\ [][ lastRun'.op = "wobble"
           => LET t == timers[NextTimer]
              IN  IF t.count + 1 < 2 * t.wobbles
                  THEN \E i \in DOMAIN timers' :
                          /\ timers'[i].kind = "wobble"
                          /\ timers'[i].count = t.count + 1
                          /\ timers'[i].dir = -t.dir
                  ELSE /\ \A i \in DOMAIN timers' : timers'[i].kind # "wobble"
                       /\ dials'[t.dial].needle = t.base
                       /\ dials'[t.dial].transition = "none" ]_gaugeVars
    /\ (WobbleTimers # {}) ~> (WobbleTimers = {})

\* a wobble has taken its last step
C32_Witness ==
    /\ lastRun.op = "wobble" /\ WobbleTimers = {}
    /\ dials[lastRun.dial].transition = "none"
    /\ dials[lastRun.dial].needle = Rat(-450 + 9 * ClampSpec(calls[lastRun.call].conf), 5)

\* the flags the heuristics raise for a URL, and the penalty they add up to
RaisedFlags(v, url) ==
    (IF url.punycode THEN {"punycode"} ELSE {})
    \cup (IF url.shortener THEN {"shortener"} ELSE {})
    \cup (IF hasSuspiciousTld(url) THEN {"suspiciousTld"} ELSE {})
    \cup (IF url.login THEN {"loginKeyword"} ELSE {})
    \cup (IF unusualProtocol(v, url) THEN {"protocol"} ELSE {})

PenaltyOf(raised) ==
    (IF "punycode" \in raised THEN 35 ELSE 0) + (IF "shortener" \in raised THEN 30 ELSE 0)
    + (IF "suspiciousTld" \in raised THEN 25 ELSE 0)
    + (IF "loginKeyword" \in raised THEN 20 ELSE 0)
    + (IF "protocol" \in raised THEN 40 ELSE 0)

\* C33: for every combination of raised flags the confidence is the integer
\* max(0, 85 - sum of their penalties), within [0, 85], and the verdict is 'Likely
\* Genuine' (class safe) exactly when no flag is raised, with confidence 85.
C33_ScoreFromFlags ==
    lastRun.op = "analyzeUrl"
    => LET raised == RaisedFlags(variant, runs[1].url)
           left == 85 - PenaltyOf(raised)
           verdict == lastRun.verdict
       IN  /\ verdict.confidence = (IF left < 0 THEN 0 ELSE left)
           /\ verdict.confidence \in 0..85
           /\ (verdict.verdictClass = "safe") <=> (raised = {})
           /\ raised = {} => verdict.confidence = 85

\* the penalties of the raised flags exceed 85 and the confidence is 0
C33_Witness ==
    /\ lastRun.op = "analyzeUrl"
    /\ PenaltyOf(RaisedFlags(variant, runs[1].url)) > 85
    /\ lastRun.verdict.confidence = 0 /\ lastRun.verdict.verdictClass = "fake"

\* C34 (as claimed): v2.0 raises 'Unusual protocol', with its 40 points, exactly
\* for protocols other than 'http:' and 'https:', as the first variant does.
C34_ProtocolIssue ==
    (lastRun.op = "analyzeUrl" /\ variant = 2)
    => /\ (\E i \in DOMAIN lastRun.scores : lastRun.scores[i] = 40)
            <=> runs[1].url.protocol \notin {"http:", "https:"}
       /\ unusualProtocol(2, runs[1].url) = unusualProtocol(1, runs[1].url)

\* C35 (as claimed): currentRaf (STATE.currentRaf) is non-null exactly while a frame
\* callback of animateGauge is pending; it is null again once the animation has
\* completed or been cancelled.
C35_HandleTracksLoop ==
    (currentRaf # NULL) <=> (\E i \in DOMAIN rafs : rafs[i].kind = "gauge")

\* C10: calling animateGauge twice with the same arguments on one dial, the second
\* call at any point of the first call's course, leaves after all pending callbacks
\* have run the same label, arc dash, needle transform and needle transition as
\* calling it once.
C10_Idempotent ==
    (/\ Quiescent /\ calls # <<>>
     /\ \A k \in DOMAIN calls : Effective(k) /\ SameArgs(calls[k], calls[1]))
    => LET d == dials[calls[1].dial]
       IN  /\ Shows(d, ClampSpec(calls[1].conf))
           /\ d.dash[2] = RSub(RInt(d.pathLen), d.dash[1])
           /\ d.transition = OnceTransition(calls[1])

\* the second of two equal calls came during the completion wobble of the first
C10_Witness ==
    /\ Quiescent /\ Len(calls) = 2 /\ SameArgs(calls[1], calls[2])
    /\ ~calls[2].reduce /\ calls[2].wobble
    /\ calls[2].phase = "wobble"

====
